---- MODULE Spec2Model ----
(***************************************************************************)
(* Model of mock_toolkit/__init__.py: the keyword-based mock LLM client,   *)
(* the three agent tools (classify_only, retrieve_and_answer, refuse) and  *)
(* decide_action.                                                          *)
(*                                                                         *)
(* Representation.  A Python text string (prompt, user input, question) is *)
(* the sequence of its characters, each character a one-character string.  *)
(* The text a chooser returns, which decide_action hands to json.loads, is *)
(* the sequence of its JSON lexical tokens.  A Python value produced by    *)
(* json.loads is a record [t |-> type tag, v |-> payload].                 *)
(***************************************************************************)
EXTENDS Integers, Sequences, FiniteSets, TLC

VARIABLES
    ALLOWED_ACTIONS,   \* module global, the set of allowed action names
    KNOWLEDGE_BASE,    \* module global, the dict in insertion order
    REFUSAL_TEXT,      \* module global
    llm_client,        \* the chooser object handed to decide_action
    user_input,        \* the text the calls of this run are made on
    op,                \* the last completed call ("none" before the first)
    raw,               \* what the chooser returned to the last decide_action
    ret,               \* outcome of the last completed call
    action,            \* the action the last decide_action returned
    pc,                \* per thread: position inside its current call
    call,              \* per thread: the call it runs and its argument
    frame,             \* the local variables of the running calls
    tret               \* per thread: what its call returned

vars == <<ALLOWED_ACTIONS, KNOWLEDGE_BASE, REFUSAL_TEXT, llm_client, user_input,
          op, raw, ret, action, pc, call, frame, tret>>

globals == <<ALLOWED_ACTIONS, KNOWLEDGE_BASE, REFUSAL_TEXT>>
seqvars == <<llm_client, user_input, op, raw, ret, action>>
thrvars == <<pc, call, frame, tret>>

----------------------------------------------------------------------------
(* Bounds of the model.                                                    *)

\* longest input text, counted in fragments of InputPieces
MaxPieces == 2
\* number of threads calling into the module concurrently
NumThreads == 2

----------------------------------------------------------------------------
(* Python str operations, on sequences of characters.                      *)

UPPER == <<"A","B","C","D","E","F","G","H","I","J","K","L","M",
           "N","O","P","Q","R","S","T","U","V","W","X","Y","Z">>
LOWER == <<"a","b","c","d","e","f","g","h","i","j","k","l","m",
           "n","o","p","q","r","s","t","u","v","w","x","y","z">>

\* the lower-case form of each upper-case letter
UpperToLower ==
    [c \in {UPPER[i] : i \in DOMAIN UPPER} |->
        LOWER[CHOOSE i \in DOMAIN UPPER : UPPER[i] = c]]

\* the lower-case form of one character
LowerChar(c) == IF c \in DOMAIN UpperToLower THEN UpperToLower[c] ELSE c

\* str.lower()
Lower(s) == [i \in 1..Len(s) |-> LowerChar(s[i])]

\* does sub occur in s at position i, for 1 <= i <= Len(s) - Len(sub) + 1
OccursAt(s, sub, i) == \A j \in DOMAIN sub : s[i + j - 1] = sub[j]

\* str.find(), 1-based, from position `from` on; 0 when sub does not occur
Find(s, sub, from) ==
    LET hits == {i \in from..(Len(s) - Len(sub) + 1) : OccursAt(s, sub, i)}
    IN  IF hits = {} THEN 0 ELSE CHOOSE i \in hits : \A k \in hits : i <= k

\* `sub in s`
Contains(s, sub) == \E i \in 1..(Len(s) - Len(sub) + 1) : OccursAt(s, sub, i)

RECURSIVE SplitFrom(_, _, _)
SplitFrom(s, sep, from) ==
    LET i == Find(s, sep, from)
    IN  IF i = 0 THEN <<SubSeq(s, from, Len(s))>>
        ELSE <<SubSeq(s, from, i - 1)>> \o SplitFrom(s, sep, i + Len(sep))

\* str.split(sep): the pieces between the non-overlapping occurrences of sep,
\* scanned from the left
Split(s, sep) == SplitFrom(s, sep, 1)

\* any(kw in text for kw in kws)
AnyKeywordIn(text, kws) == \E i \in DOMAIN kws : Contains(text, kws[i])

----------------------------------------------------------------------------
(* String constants of the source.                                         *)

MARKER == <<"U","s","e","r"," ","i","n","p","u","t",":"," ">>
PROMPT_LINE_1 == <<"C","h","o","o","s","e"," ","e","x","a","c","t","l","y"," ","o","n","e"," ","a","c","t","i","o","n",":"," ","r","e","t","r","i","e","v","e","_","a","n","d","_","a","n","s","w","e","r",","," ","c","l","a","s","s","i","f","y","_","o","n","l","y",","," ","r","e","f","u","s","e","\n">>
PROMPT_LINE_2 == <<"R","e","t","u","r","n"," ","O","N","L","Y"," ","v","a","l","i","d"," ","J","S","O","N",":"," ","{","\"","a","c","t","i","o","n","\"",":"," ","\"","<","a","c","t","i","o","n",">","\"","}","\n">>

KW_rate == <<"r","a","t","e">>
KW_inflation == <<"i","n","f","l","a","t","i","o","n">>
KW_monetary == <<"m","o","n","e","t","a","r","y">>
KW_central_bank == <<"c","e","n","t","r","a","l"," ","b","a","n","k">>
KW_loan == <<"l","o","a","n">>
KW_mortgage == <<"m","o","r","t","g","a","g","e">>
KW_lending == <<"l","e","n","d","i","n","g">>
KW_credit == <<"c","r","e","d","i","t">>
KW_stock == <<"s","t","o","c","k">>
KW_equity == <<"e","q","u","i","t","y">>
KW_market == <<"m","a","r","k","e","t">>
KW_earning == <<"e","a","r","n","i","n","g">>
KW_classify == <<"c","l","a","s","s","i","f","y">>
KW_label == <<"l","a","b","e","l">>
KW_topic == <<"t","o","p","i","c">>

\* the first keyword list of chat, taken over from classify_only's first group
CHAT_RETRIEVE_KWS_AS_GROUP_1 == <<KW_rate, KW_inflation, KW_monetary, KW_central_bank>>

\* the keyword lists of MockLLMClient.chat
CHAT_RETRIEVE_KWS == <<KW_rate, KW_inflation, KW_monetary>>
CHAT_CLASSIFY_KWS == <<KW_classify, KW_label, KW_topic>>

\* the keyword lists of classify_only
GROUP_1_KWS == <<KW_rate, KW_inflation, KW_monetary, KW_central_bank>>
GROUP_2_KWS == <<KW_loan, KW_mortgage, KW_lending, KW_credit>>
GROUP_3_KWS == <<KW_stock, KW_equity, KW_market, KW_earning>>

TOPIC_RATES == "Topic: Interest Rates & Monetary Policy"
TOPIC_LENDING == "Topic: Lending & Credit"
TOPIC_EQUITY == "Topic: Equity Markets"
TOPIC_OUT == "Topic: Out of Domain"

ANSWER_PREFIX == "Based on retrieved documents: "
NO_INFO == "No relevant information found."

ALLOWED_ACTIONS_0 == {"retrieve_and_answer", "classify_only", "refuse"}

REFUSAL_TEXT_0 == "Refused: I am not authorised to act on this request."

\* the dict literal, as the sequence of its items in insertion order
KNOWLEDGE_BASE_0 ==
    << [keyword |-> KW_rate,
        answer |-> "The central bank raised interest rates by 25 basis points to combat persistent inflation."],
       [keyword |-> KW_inflation,
        answer |-> "Inflation remained elevated at 4.2% year-on-year, driven by energy prices."],
       [keyword |-> KW_mortgage,
        answer |-> "Mortgage rates reached a two-decade high, causing home sales to decline 15%."],
       [keyword |-> KW_loan,
        answer |-> "Lending standards tightened as banks responded to higher funding costs."],
       [keyword |-> KW_monetary,
        answer |-> "The dual mandate requires balancing maximum employment with price stability."] >>

----------------------------------------------------------------------------
(* JSON text, as tokens, and json.loads.                                   *)

Punct(c) == [k |-> "punct", s |-> c]
StrTok(x) == [k |-> "str", s |-> x]
NumTok(x) == [k |-> "num", s |-> x]
LitTok(x) == [k |-> "lit", s |-> x]
BadTok(x) == [k |-> "bad", s |-> x]

LC == Punct("{")
RC == Punct("}")
LB == Punct("[")
RB == Punct("]")
COLON == Punct(":")
COMMA == Punct(",")

\* Python values
PyStr(x) == [t |-> "str", v |-> x]
PyNum(x) == [t |-> "num", v |-> x]
PyBool(x) == [t |-> "bool", v |-> x]
PyNone == [t |-> "None", v |-> "None"]
PyList(x) == [t |-> "list", v |-> x]
PyDict(x) == [t |-> "dict", v |-> x]

\* d[key] = val on a dict held as a function from its keys
DictSet(d, key, val) ==
    [x \in (DOMAIN d) \cup {key} |-> IF x = key THEN val ELSE d[x]]

\* an integer literal of more digits than int() converts (the interpreter's
\* limit on integer string conversion)
HUGE_INT == NumTok("<an integer of more digits than the conversion limit>")

\* a run of "[" nested deeper than the interpreter's recursion limit
DEEP_NESTING == [k |-> "nest", s |-> "<more [ than the recursion limit>"]

ParseOk(val, next) == [ok |-> TRUE, val |-> val, next |-> next, err |-> ""]
ParseFail(err) == [ok |-> FALSE, val |-> PyNone, next |-> 0, err |-> err]
SyntaxError == ParseFail("JSONDecodeError")

RECURSIVE ParseValue(_, _)
RECURSIVE ParseMembers(_, _, _)
RECURSIVE ParseItems(_, _, _)

\* the members of an object from the key at position i on, d the dict so far
ParseMembers(toks, i, d) ==
    IF i > Len(toks) \/ toks[i].k # "str" THEN SyntaxError
    ELSE IF i + 1 > Len(toks) \/ toks[i + 1] # COLON THEN SyntaxError
    ELSE LET r == ParseValue(toks, i + 2)
         IN  IF ~r.ok THEN r
             ELSE IF r.next > Len(toks) THEN SyntaxError
             ELSE LET d2 == DictSet(d, toks[i].s, r.val)
                  IN  IF toks[r.next] = RC THEN ParseOk(PyDict(d2), r.next + 1)
                      ELSE IF toks[r.next] = COMMA
                              THEN ParseMembers(toks, r.next + 1, d2)
                      ELSE SyntaxError

\* the items of an array from position i on, l the list so far
ParseItems(toks, i, l) ==
    LET r == ParseValue(toks, i)
    IN  IF ~r.ok THEN r
        ELSE IF r.next > Len(toks) THEN SyntaxError
        ELSE LET l2 == Append(l, r.val)
             IN  IF toks[r.next] = RB THEN ParseOk(PyList(l2), r.next + 1)
                 ELSE IF toks[r.next] = COMMA THEN ParseItems(toks, r.next + 1, l2)
                 ELSE SyntaxError

\* one JSON value starting at position i (the decoder's scan_once)
ParseValue(toks, i) ==
    IF i > Len(toks) THEN SyntaxError
    ELSE LET tk == toks[i]
         IN  CASE tk.k = "str" -> ParseOk(PyStr(tk.s), i + 1)
               [] tk = HUGE_INT -> ParseFail("ValueError")
               [] tk.k = "num" /\ tk # HUGE_INT -> ParseOk(PyNum(tk.s), i + 1)
               [] tk.k = "lit" ->
                    ParseOk(IF tk.s = "null" THEN PyNone ELSE PyBool(tk.s), i + 1)
               [] tk = DEEP_NESTING -> ParseFail("RecursionError")
               [] tk = LC ->
                    IF i + 1 <= Len(toks) /\ toks[i + 1] = RC
                    THEN ParseOk(PyDict(<< >>), i + 2)
                    ELSE ParseMembers(toks, i + 1, << >>)
               [] tk = LB ->
                    IF i + 1 <= Len(toks) /\ toks[i + 1] = RB
                    THEN ParseOk(PyList(<< >>), i + 2)
                    ELSE ParseItems(toks, i + 1, << >>)
               [] OTHER -> SyntaxError

\* json.loads(text): the value, or the exception raised (err).  Text after the
\* first value ("Extra data") is a JSONDecodeError
json_loads(text) ==
    LET r == ParseValue(text, 1)
    IN  IF r.ok /\ r.next # Len(text) + 1
        THEN [ok |-> FALSE, val |-> PyNone, err |-> "JSONDecodeError"]
        ELSE [ok |-> r.ok, val |-> r.val, err |-> r.err]

----------------------------------------------------------------------------
(* Outcome of a call.                                                      *)

Return(x) == [kind |-> "return", value |-> x]
Raise(e) == [kind |-> "raise", value |-> e]

----------------------------------------------------------------------------
(* MockLLMClient.chat                                                      *)

REPLY_RETRIEVE == <<LC, StrTok("action"), COLON, StrTok("retrieve_and_answer"), RC>>
REPLY_CLASSIFY == <<LC, StrTok("action"), COLON, StrTok("classify_only"), RC>>
REPLY_REFUSE == <<LC, StrTok("action"), COLON, StrTok("refuse"), RC>>

\* lines 31-34 with the marker test dropped: always lower-case the whole prompt
UserPartWholePrompt(prompt) == Lower(prompt)

\* lines 31-34: the lower-cased user part of the prompt
UserPart(prompt) ==
    IF Contains(prompt, MARKER)
    THEN LET parts == Split(prompt, MARKER) IN Lower(parts[Len(parts)])
    ELSE Lower(prompt)

\* lines 36-40 with the two keyword tests in the other order
ChatReplySwapped(user_part) ==
    IF AnyKeywordIn(user_part, CHAT_CLASSIFY_KWS) THEN REPLY_CLASSIFY
    ELSE IF AnyKeywordIn(user_part, CHAT_RETRIEVE_KWS) THEN REPLY_RETRIEVE
    ELSE REPLY_REFUSE

\* lines 36-40: the reply for a user part
ChatReply(user_part) ==
    IF AnyKeywordIn(user_part, CHAT_RETRIEVE_KWS) THEN REPLY_RETRIEVE
    ELSE IF AnyKeywordIn(user_part, CHAT_CLASSIFY_KWS) THEN REPLY_CLASSIFY
    ELSE REPLY_REFUSE

chat(prompt) == ChatReply(UserPart(prompt))

----------------------------------------------------------------------------
(* classify_only                                                           *)

\* the label for the lower-cased text, with groups 1 and 2 tested in the other order
ClassifyLabelGroup2First(text_lower) ==
    IF AnyKeywordIn(text_lower, GROUP_2_KWS) THEN TOPIC_LENDING
    ELSE IF AnyKeywordIn(text_lower, GROUP_1_KWS) THEN TOPIC_RATES
    ELSE IF AnyKeywordIn(text_lower, GROUP_3_KWS) THEN TOPIC_EQUITY
    ELSE TOPIC_OUT

\* lines 64-70: the label for the lower-cased text
ClassifyLabel(text_lower) ==
    IF AnyKeywordIn(text_lower, GROUP_1_KWS) THEN TOPIC_RATES
    ELSE IF AnyKeywordIn(text_lower, GROUP_2_KWS) THEN TOPIC_LENDING
    ELSE IF AnyKeywordIn(text_lower, GROUP_3_KWS) THEN TOPIC_EQUITY
    ELSE TOPIC_OUT

classify_only(text) == ClassifyLabel(Lower(text))

----------------------------------------------------------------------------
(* retrieve_and_answer                                                     *)

\* the loop of lines 91-94 run from the last item to the first
RECURSIVE KbScanBackward(_, _)
KbScanBackward(question_lower, i) ==
    LET j == Len(KNOWLEDGE_BASE) + 1 - i
    IN  IF i > Len(KNOWLEDGE_BASE) THEN ANSWER_PREFIX \o NO_INFO
        ELSE IF Contains(question_lower, KNOWLEDGE_BASE[j].keyword)
             THEN ANSWER_PREFIX \o KNOWLEDGE_BASE[j].answer
        ELSE KbScanBackward(question_lower, i + 1)

\* lines 91-94: the loop over KNOWLEDGE_BASE.items() from item i on
RECURSIVE KbScan(_, _)
KbScan(question_lower, i) ==
    IF i > Len(KNOWLEDGE_BASE) THEN ANSWER_PREFIX \o NO_INFO
    ELSE IF Contains(question_lower, KNOWLEDGE_BASE[i].keyword)
         THEN ANSWER_PREFIX \o KNOWLEDGE_BASE[i].answer
    ELSE KbScan(question_lower, i + 1)

retrieve_and_answer(question) == KbScan(Lower(question), 1)

----------------------------------------------------------------------------
(* refuse                                                                  *)

refuse == REFUSAL_TEXT

----------------------------------------------------------------------------
(* decide_action                                                           *)

\* a chooser: the mock of this module, or a stub that returns one fixed text
MockLLMClient == [kind |-> "mock", reply |-> << >>]
StubLLMClient(text) == [kind |-> "stub", reply |-> text]

\* lines 117-121
BuildPrompt(input) == PROMPT_LINE_1 \o PROMPT_LINE_2 \o MARKER \o input

\* line 122: llm_client.chat(prompt)
ChooserReply(client, prompt) ==
    IF client.kind = "mock" THEN chat(prompt) ELSE client.reply

\* lines 123-126: json.loads(raw).get("action", "refuse").  The except clause
\* catches the JSONDecodeError of json.loads and the AttributeError of a value
\* that has no .get, and gives "refuse"; any other exception of json.loads
\* leaves decide_action
ParseAction(text) ==
    LET r == json_loads(text)
    IN  IF ~r.ok
        THEN IF r.err = "JSONDecodeError" THEN Return(PyStr("refuse")) ELSE Raise(r.err)
        ELSE IF r.val.t # "dict" THEN Return(PyStr("refuse"))
        ELSE IF "action" \in DOMAIN r.val.v THEN Return(r.val.v["action"])
        ELSE Return(PyStr("refuse"))

\* can the value be hashed (a list or a dict cannot)
Hashable(val) == val.t \notin {"list", "dict"}

\* lines 127-129: `action not in ALLOWED_ACTIONS` hashes action first, which
\* raises TypeError for a list or a dict; no str equals a value of another type
Validate(act) ==
    IF ~Hashable(act) THEN Raise("TypeError")
    ELSE IF ~(act.t = "str" /\ act.v \in ALLOWED_ACTIONS) THEN Return("refuse")
    ELSE Return(act.v)

\* lines 123-129, on the text the chooser returned
DecideFromRaw(text) ==
    LET parsed == ParseAction(text)
    IN  IF parsed.kind = "raise" THEN parsed ELSE Validate(parsed.value)

decide_action(client, input) ==
    DecideFromRaw(ChooserReply(client, BuildPrompt(input)))

----------------------------------------------------------------------------
(* Inputs.                                                                 *)

P_RATE == <<"R","A","T","E">>
P_Inflation == <<"I","n","f","l","a","t","i","o","n">>
P_MoNeTaRy == <<"M","o","N","e","T","a","R","y">>
P_CentralBank == <<"C","e","n","t","r","a","l"," ","B","a","n","k">>
P_Mortgage == <<"M","o","r","t","g","a","g","e">>
P_Topic == <<"T","o","p","i","c">>
P_hi == <<"h","i"," ">>
P_marker_lower == <<"u","s","e","r"," ","i","n","p","u","t",":"," ">>
P_rate_then_marker == KW_rate \o <<" ">> \o MARKER

\* the fragments input texts are put together from: every keyword of the source
\* (some in upper or mixed case), the prompt marker, the marker in lower case,
\* a keyword followed by the marker, and a filler
InputPieces ==
    { KW_rate, P_RATE, P_Inflation, P_MoNeTaRy, P_CentralBank,
      KW_loan, P_Mortgage, KW_lending, KW_credit,
      KW_stock, KW_equity, KW_market, KW_earning,
      KW_classify, KW_label, P_Topic,
      MARKER, P_marker_lower, P_rate_then_marker, P_hi }

RECURSIVE Flatten(_)
Flatten(ps) == IF ps = << >> THEN << >> ELSE Head(ps) \o Flatten(Tail(ps))

\* the texts made of at most n fragments
TextsUpTo(n) == UNION {{Flatten(ps) : ps \in [1..k -> InputPieces]} : k \in 0..n}

Texts == TextsUpTo(MaxPieces)

\* JSON texts a chooser may return
ScalarToks ==
    { StrTok("retrieve_and_answer"), StrTok("classify_only"), StrTok("refuse"),
      StrTok("delete_everything"), StrTok("action"),
      NumTok("1"), HUGE_INT, LitTok("null"), LitTok("true") }

ArrayTexts == {<<LB, RB>>} \cup {<<LB, x, RB>> : x \in ScalarToks}

ValueTexts ==
    {<<x>> : x \in ScalarToks} \cup ArrayTexts
    \cup {<<LC, RC>>, <<LC, StrTok("action"), COLON, StrTok("classify_only"), RC>>}

ObjectKeys == {"action", "other"}

ObjectTexts ==
    {<<LC, StrTok(key), COLON>> \o x \o <<RC>> : key \in ObjectKeys, x \in ValueTexts}
    \cup {<<LC, StrTok(k1), COLON, x1, COMMA, StrTok(k2), COLON, x2, RC>> :
            k1 \in ObjectKeys, k2 \in ObjectKeys,
            x1 \in {StrTok("classify_only"), StrTok("delete_everything")},
            x2 \in {StrTok("retrieve_and_answer"), NumTok("1")}}

WellFormedTexts == ValueTexts \cup ObjectTexts

\* malformed texts: a well-formed text cut short, or followed by more text, and
\* text that is no JSON at all
MalformedTexts ==
    (UNION {{SubSeq(x, 1, n) : n \in 0..Len(x)} : x \in ObjectTexts \cup ArrayTexts}
        \ WellFormedTexts)
    \cup {x \o <<y>> : x \in ArrayTexts \cup {REPLY_REFUSE}, y \in {RC, StrTok("refuse")}}
    \cup {<<BadTok("not json")>>, <<LC, StrTok("action"), COLON, BadTok("refuse"), RC>>}
    \cup {<<DEEP_NESTING>>, <<LC, StrTok("action"), COLON, DEEP_NESTING>>}

RawTexts == WellFormedTexts \cup MalformedTexts

\* the inputs the stub choosers are run on
StubInputs == {P_hi, KW_rate, KW_classify}

----------------------------------------------------------------------------
(* The module used by one caller: a sequence of calls on user_input.       *)

Idle == "idle"
NoCall == [name |-> "none", arg |-> << >>]
NoFrame == [text |-> << >>, reply |-> << >>, act |-> PyNone, i |-> 0]
Threads == 1..NumThreads

InitGlobals ==
    /\ ALLOWED_ACTIONS = ALLOWED_ACTIONS_0
    /\ KNOWLEDGE_BASE = KNOWLEDGE_BASE_0
    /\ REFUSAL_TEXT = REFUSAL_TEXT_0

InitThreadVars ==
    /\ pc = [t \in Threads |-> Idle]
    /\ call = [t \in Threads |-> NoCall]
    /\ frame = [t \in Threads |-> NoFrame]
    /\ tret = [t \in Threads |-> Return("")]

Init ==
    /\ InitGlobals
    /\ InitThreadVars
    /\ \/ llm_client = MockLLMClient /\ user_input \in Texts
       \/ llm_client \in {StubLLMClient(x) : x \in RawTexts} /\ user_input \in StubInputs
    /\ op = "none"
    /\ raw = << >>
    /\ ret = Return("")
    /\ action = "none"

\* MockLLMClient().chat(user_input)
Chat ==
    /\ op' = "chat"
    /\ ret' = Return(chat(user_input))
    /\ UNCHANGED <<globals, llm_client, user_input, raw, action, thrvars>>

\* classify_only(user_input)
ClassifyOnly ==
    /\ op' = "classify_only"
    /\ ret' = Return(classify_only(user_input))
    /\ UNCHANGED <<globals, llm_client, user_input, raw, action, thrvars>>

\* retrieve_and_answer(user_input)
RetrieveAndAnswer ==
    /\ op' = "retrieve_and_answer"
    /\ ret' = Return(retrieve_and_answer(user_input))
    /\ UNCHANGED <<globals, llm_client, user_input, raw, action, thrvars>>

\* refuse()
Refuse ==
    /\ op' = "refuse"
    /\ ret' = Return(refuse)
    /\ UNCHANGED <<globals, llm_client, user_input, raw, action, thrvars>>

\* decide_action(llm_client, user_input)
DecideAction ==
    LET reply == ChooserReply(llm_client, BuildPrompt(user_input))
        r == DecideFromRaw(reply)
    IN  /\ op' = "decide_action"
        /\ raw' = reply
        /\ ret' = r
        /\ action' = IF r.kind = "return" THEN r.value ELSE "none"
        /\ UNCHANGED <<globals, llm_client, user_input, thrvars>>

Next == Chat \/ ClassifyOnly \/ RetrieveAndAnswer \/ Refuse \/ DecideAction

Spec == Init /\ [][Next]_vars

----------------------------------------------------------------------------
(* The module used by several threads at once.  Every call runs in steps;  *)
(* between two steps of one thread the other threads may run.  The locals  *)
(* of a call (user_part, text_lower, question_lower, prompt, raw, action,  *)
(* the loop position) live in the frame of that call.                      *)

\* locals kept in one module-level place that all calls share
SlotShared(t) == 1

\* where the locals of the call of thread t live: in its own frame
Slot(t) == t

ThreadTexts == {P_RATE, P_Topic, P_Mortgage \o MARKER \o P_hi}

ThreadCalls ==
    {[name |-> n, arg |-> a] :
        n \in {"chat", "classify_only", "retrieve_and_answer", "decide_action"},
        a \in ThreadTexts}
    \cup {[name |-> "refuse", arg |-> << >>]}

InitThreads ==
    /\ InitGlobals
    /\ InitThreadVars
    /\ llm_client = MockLLMClient
    /\ user_input = << >>
    /\ op = "none"
    /\ raw = << >>
    /\ ret = Return("")
    /\ action = "none"

Goto(t, label) == pc' = [pc EXCEPT ![t] = label]
SetLocal(t, f) == frame' = [frame EXCEPT ![Slot(t)] = f]
Local(t) == frame[Slot(t)]
Finish(t, outcome) ==
    /\ tret' = [tret EXCEPT ![t] = outcome]
    /\ Goto(t, "done")

\* a thread enters a call: a fresh frame
Begin(t) ==
    /\ pc[t] = Idle
    /\ \E c \in ThreadCalls :
          /\ call' = [call EXCEPT ![t] = c]
          /\ Goto(t, c.name)
    /\ SetLocal(t, NoFrame)
    /\ UNCHANGED <<globals, seqvars, tret>>

\* chat, lines 31-34
ChatUserPart(t) ==
    /\ pc[t] = "chat"
    /\ SetLocal(t, [Local(t) EXCEPT !.text = UserPart(call[t].arg)])
    /\ Goto(t, "chat_reply")
    /\ UNCHANGED <<globals, seqvars, call, tret>>

\* chat, lines 36-40
ChatReturn(t) ==
    /\ pc[t] = "chat_reply"
    /\ Finish(t, Return(ChatReply(Local(t).text)))
    /\ UNCHANGED <<globals, seqvars, call, frame>>

\* classify_only, line 63
ClassifyLower(t) ==
    /\ pc[t] = "classify_only"
    /\ SetLocal(t, [Local(t) EXCEPT !.text = Lower(call[t].arg)])
    /\ Goto(t, "classify_label")
    /\ UNCHANGED <<globals, seqvars, call, tret>>

\* classify_only, lines 64-70
ClassifyReturn(t) ==
    /\ pc[t] = "classify_label"
    /\ Finish(t, Return(ClassifyLabel(Local(t).text)))
    /\ UNCHANGED <<globals, seqvars, call, frame>>

\* retrieve_and_answer, line 90
RetrieveLower(t) ==
    /\ pc[t] = "retrieve_and_answer"
    /\ SetLocal(t, [Local(t) EXCEPT !.text = Lower(call[t].arg), !.i = 1])
    /\ Goto(t, "retrieve_loop")
    /\ UNCHANGED <<globals, seqvars, call, tret>>

\* retrieve_and_answer, lines 91-94: one turn of the loop, or the final return
RetrieveLoop(t) ==
    /\ pc[t] = "retrieve_loop"
    /\ LET f == Local(t)
       IN  IF f.i > Len(KNOWLEDGE_BASE)
           THEN Finish(t, Return(ANSWER_PREFIX \o NO_INFO)) /\ UNCHANGED frame
           ELSE IF Contains(f.text, KNOWLEDGE_BASE[f.i].keyword)
           THEN /\ Finish(t, Return(ANSWER_PREFIX \o KNOWLEDGE_BASE[f.i].answer))
                /\ UNCHANGED frame
           ELSE /\ SetLocal(t, [f EXCEPT !.i = f.i + 1])
                /\ UNCHANGED <<pc, tret>>
    /\ UNCHANGED <<globals, seqvars, call>>

\* refuse, line 104
RefuseReturn(t) ==
    /\ pc[t] = "refuse"
    /\ Finish(t, Return(REFUSAL_TEXT))
    /\ UNCHANGED <<globals, seqvars, call, frame>>

\* decide_action, lines 117-121
DecidePrompt(t) ==
    /\ pc[t] = "decide_action"
    /\ SetLocal(t, [Local(t) EXCEPT !.text = BuildPrompt(call[t].arg)])
    /\ Goto(t, "decide_chat")
    /\ UNCHANGED <<globals, seqvars, call, tret>>

\* decide_action, line 122, inside chat: lines 31-34
DecideChatUserPart(t) ==
    /\ pc[t] = "decide_chat"
    /\ SetLocal(t, [Local(t) EXCEPT !.text = UserPart(Local(t).text)])
    /\ Goto(t, "decide_chat_reply")
    /\ UNCHANGED <<globals, seqvars, call, tret>>

\* decide_action, line 122, inside chat: lines 36-40, and the assignment to raw
DecideChatReturn(t) ==
    /\ pc[t] = "decide_chat_reply"
    /\ SetLocal(t, [Local(t) EXCEPT !.reply = ChatReply(Local(t).text)])
    /\ Goto(t, "decide_parse")
    /\ UNCHANGED <<globals, seqvars, call, tret>>

\* decide_action, lines 123-126
DecideParse(t) ==
    /\ pc[t] = "decide_parse"
    /\ LET parsed == ParseAction(Local(t).reply)
       IN  IF parsed.kind = "raise"
           THEN Finish(t, parsed) /\ UNCHANGED frame
           ELSE /\ SetLocal(t, [Local(t) EXCEPT !.act = parsed.value])
                /\ Goto(t, "decide_validate")
                /\ UNCHANGED tret
    /\ UNCHANGED <<globals, seqvars, call>>

\* decide_action, lines 127-129
DecideValidate(t) ==
    /\ pc[t] = "decide_validate"
    /\ Finish(t, Validate(Local(t).act))
    /\ UNCHANGED <<globals, seqvars, call, frame>>

\* the caller takes the result; the thread is free for its next call
Done(t) ==
    /\ pc[t] = "done"
    /\ Goto(t, Idle)
    /\ call' = [call EXCEPT ![t] = NoCall]
    /\ tret' = [tret EXCEPT ![t] = Return("")]
    /\ UNCHANGED <<globals, seqvars, frame>>

NextThreads ==
    \E t \in Threads :
        \/ Begin(t)
        \/ ChatUserPart(t)
        \/ ChatReturn(t)
        \/ ClassifyLower(t)
        \/ ClassifyReturn(t)
        \/ RetrieveLower(t)
        \/ RetrieveLoop(t)
        \/ RefuseReturn(t)
        \/ DecidePrompt(t)
        \/ DecideChatUserPart(t)
        \/ DecideChatReturn(t)
        \/ DecideParse(t)
        \/ DecideValidate(t)
        \/ Done(t)

SpecThreads == InitThreads /\ [][NextThreads]_vars

----------------------------------------------------------------------------
(* Vocabulary of the properties, stated apart from the code's operators.   *)

\* kw occurs in text as a substring when case is ignored
CiOccurs(text, kw) ==
    \E i \in 1..Len(text) :
        /\ i + Len(kw) - 1 <= Len(text)
        /\ \A j \in 1..Len(kw) : LowerChar(text[i + j - 1]) = kw[j]

CiAny(text, kws) == \E kw \in kws : CiOccurs(text, kw)

RetrieveWords == {KW_rate, KW_inflation, KW_monetary}
ClassifyWords == {KW_classify, KW_label, KW_topic}
Group1Words == {KW_rate, KW_inflation, KW_monetary, KW_central_bank}
Group2Words == {KW_loan, KW_mortgage, KW_lending, KW_credit}
Group3Words == {KW_stock, KW_equity, KW_market, KW_earning}

\* the places where the marker "User input: " starts in text
MarkerPlaces(text) ==
    {i \in 1..Len(text) :
        /\ i + Len(MARKER) - 1 <= Len(text)
        /\ \A j \in 1..Len(MARKER) : text[i + j - 1] = MARKER[j]}

\* the text after the last marker; the whole text when it holds no marker
AfterLastMarker(text) ==
    LET places == MarkerPlaces(text)
    IN  IF places = {} THEN text
        ELSE LET last == CHOOSE i \in places : \A k \in places : k <= i
             IN  SubSeq(text, last + Len(MARKER), Len(text))

\* the decoded chooser reply of the last decide_action
Decoded == json_loads(raw)
HasActionField ==
    /\ Decoded.ok
    /\ Decoded.val.t = "dict"
    /\ "action" \in DOMAIN Decoded.val.v
ActionField == Decoded.val.v["action"]
ActionFieldAllowed ==
    /\ HasActionField
    /\ ActionField.t = "str"
    /\ ActionField.v \in {"retrieve_and_answer", "classify_only", "refuse"}

\* the keyword rule of the chooser applied to a text
RuleAction(text) ==
    IF CiAny(text, RetrieveWords) THEN "retrieve_and_answer"
    ELSE IF CiAny(text, ClassifyWords) THEN "classify_only"
    ELSE "refuse"

ReplyFor(name) == <<LC, StrTok("action"), COLON, StrTok(name), RC>>

----------------------------------------------------------------------------
(* Properties.                                                             *)

\* C1: whenever the chooser's reply decodes to an object with an `action`
\* field, decide_action returns that field's value if it is an allowed action
\* and returns "refuse" otherwise; every value returned is an allowed action.
C1_ReturnsFieldOrRefuse ==
    op = "decide_action" =>
        /\ HasActionField =>
              ret = Return(IF ActionFieldAllowed THEN ActionField.v ELSE "refuse")
        /\ ret.kind = "return" =>
              ret.value \in {"retrieve_and_answer", "classify_only", "refuse"}

\* C2: whatever the chooser returns that does not name an allowed action
\* (malformed JSON, a JSON value that is no object, an object whose `action`
\* value is of any JSON type), decide_action raises nothing and returns "refuse".
C2_NeverRaises ==
    (op = "decide_action" /\ ~ActionFieldAllowed) =>
        (ret.kind = "return" /\ ret.value = "refuse")

\* C3: when no `action` field can be read from the chooser's reply (not valid
\* JSON, valid JSON that is no object, an object without the key),
\* decide_action returns "refuse".
C3_NoFieldRefuses ==
    (op = "decide_action" /\ ~HasActionField) => ret = Return("refuse")

\* C4, as claimed: every input to chat that contains rate, inflation or
\* monetary anywhere, case ignored, gets the retrieve_and_answer reply.
C4_KeywordAnywhere ==
    (op = "chat" /\ CiAny(user_input, RetrieveWords)) =>
        ret = Return(ReplyFor("retrieve_and_answer"))

\* C4, amended: every input to chat whose text after the last marker
\* "User input: " (the whole input when it holds no marker) contains rate,
\* inflation or monetary, case ignored, gets the retrieve_and_answer reply.
C4_KeywordInUserPart ==
    (op = "chat" /\ CiAny(AfterLastMarker(user_input), RetrieveWords)) =>
        ret = Return(ReplyFor("retrieve_and_answer"))

\* C4 witness: the keyword stands after a marker, in upper or mixed case only
C4_Witness ==
    /\ op = "chat"
    /\ MarkerPlaces(user_input) # {}
    /\ CiAny(AfterLastMarker(user_input), RetrieveWords)
    /\ ~AnyKeywordIn(AfterLastMarker(user_input), CHAT_RETRIEVE_KWS)
    /\ ret = Return(ReplyFor("retrieve_and_answer"))

\* C5, as claimed: an input to chat that contains none of rate, inflation,
\* monetary gets the classify_only reply if it contains classify, label or
\* topic, and the refuse reply otherwise.
C5_ClassifyElseRefuse ==
    (op = "chat" /\ ~CiAny(user_input, RetrieveWords)) =>
        ret = Return(ReplyFor(IF CiAny(user_input, ClassifyWords)
                              THEN "classify_only" ELSE "refuse"))

\* C5, amended: with the user part of an input being its text after the last
\* marker "User input: " (the whole input when it holds no marker): an input
\* whose user part contains none of rate, inflation, monetary gets the
\* classify_only reply if the user part contains classify, label or topic, and
\* the refuse reply otherwise.
C5_UserPartClassifyElseRefuse ==
    (op = "chat" /\ ~CiAny(AfterLastMarker(user_input), RetrieveWords)) =>
        ret = Return(ReplyFor(IF CiAny(AfterLastMarker(user_input), ClassifyWords)
                              THEN "classify_only" ELSE "refuse"))

\* C5 witness: a retrieve keyword before the marker, a classify keyword after it
C5_Witness ==
    /\ op = "chat"
    /\ CiAny(user_input, RetrieveWords)
    /\ ~CiAny(AfterLastMarker(user_input), RetrieveWords)
    /\ CiAny(AfterLastMarker(user_input), ClassifyWords)
    /\ ret = Return(ReplyFor("classify_only"))

\* C6: classify_only returns the label of the first keyword group, in the
\* order group 1, group 2, group 3, that has a keyword in the text, case
\* ignored, and "Topic: Out of Domain" when no group has one.
C6_FirstGroupWins ==
    op = "classify_only" =>
        ret = Return(
            IF CiAny(user_input, Group1Words)
                THEN "Topic: Interest Rates & Monetary Policy"
            ELSE IF CiAny(user_input, Group2Words) THEN "Topic: Lending & Credit"
            ELSE IF CiAny(user_input, Group3Words) THEN "Topic: Equity Markets"
            ELSE "Topic: Out of Domain")

\* C6 witness: "Mortgage" and "rate" in one text, labelled as group 1
C6_Witness ==
    /\ op = "classify_only"
    /\ CiOccurs(user_input, KW_mortgage)
    /\ CiOccurs(user_input, KW_rate)
    /\ ret = Return("Topic: Interest Rates & Monetary Policy")

\* the knowledge base as the claim lists it
C7_Entries ==
    << <<KW_rate, "The central bank raised interest rates by 25 basis points to combat persistent inflation.">>,
       <<KW_inflation, "Inflation remained elevated at 4.2% year-on-year, driven by energy prices.">>,
       <<KW_mortgage, "Mortgage rates reached a two-decade high, causing home sales to decline 15%.">>,
       <<KW_loan, "Lending standards tightened as banks responded to higher funding costs.">>,
       <<KW_monetary, "The dual mandate requires balancing maximum employment with price stability.">> >>

C7_Hits == {i \in DOMAIN C7_Entries : CiOccurs(user_input, C7_Entries[i][1])}

\* C7: retrieve_and_answer returns the prefix followed by the answer of the
\* earliest entry, in the order rate, inflation, mortgage, loan, monetary,
\* whose keyword is in the question, case ignored, and returns the
\* no-information sentence exactly when no keyword is in the question.
C7_EarliestEntry ==
    op = "retrieve_and_answer" =>
        /\ ret.kind = "return"
        /\ C7_Hits # {} =>
              \E i \in C7_Hits :
                  /\ \A k \in C7_Hits : i <= k
                  /\ ret.value = "Based on retrieved documents: " \o C7_Entries[i][2]
        /\ (ret.value = "Based on retrieved documents: No relevant information found.")
              <=> (C7_Hits = {})

\* C7 witness: a question with two keywords, the later entry's keyword first
C7_Witness ==
    /\ op = "retrieve_and_answer"
    /\ CiOccurs(user_input, KW_monetary)
    /\ CiOccurs(user_input, KW_loan)
    /\ ret = Return("Based on retrieved documents: " \o C7_Entries[4][2])

\* what a call returns when it runs alone
Alone(c) ==
    CASE c.name = "chat" -> Return(chat(c.arg))
      [] c.name = "classify_only" -> Return(classify_only(c.arg))
      [] c.name = "retrieve_and_answer" -> Return(retrieve_and_answer(c.arg))
      [] c.name = "refuse" -> Return(refuse)
      [] c.name = "decide_action" -> decide_action(MockLLMClient, c.arg)

\* C8: under any interleaving of calls from several threads the three module
\* globals keep their initial values and every finished call has returned what
\* it returns when run alone on the same argument; refuse() has returned the
\* one literal.
C8_NoInterference ==
    /\ ALLOWED_ACTIONS = {"retrieve_and_answer", "classify_only", "refuse"}
    /\ KNOWLEDGE_BASE = KNOWLEDGE_BASE_0
    /\ REFUSAL_TEXT = "Refused: I am not authorised to act on this request."
    /\ \A t \in Threads :
          pc[t] = "done" =>
              /\ tret[t] = Alone(call[t])
              /\ call[t].name = "refuse" =>
                    tret[t] = Return("Refused: I am not authorised to act on this request.")

\* C8 witness: one thread has finished a call while another thread, which
\* entered a different call on a different argument, is in the middle of it
C8_Witness ==
    \E t, u \in Threads :
        /\ pc[t] = "done"
        /\ call[t].name = "decide_action"
        /\ pc[u] \in {"chat_reply", "classify_label", "retrieve_loop"}
        /\ call[u].arg # call[t].arg

\* C9: decide_action with the mock chooser applies the keyword rule to the
\* whole user input, also when the input holds the marker "User input: ".
C9_RuleOnWholeInput ==
    (op = "decide_action" /\ llm_client = MockLLMClient) =>
        ret = Return(RuleAction(user_input))

\* C10: once decide_action with the mock chooser has returned
\* retrieve_and_answer, the call retrieve_and_answer on the same input that
\* follows returns a knowledge-base answer, not the no-information sentence.
C10_DecisionAndToolAgree ==
    (/\ llm_client = MockLLMClient
     /\ action = "retrieve_and_answer"
     /\ op = "retrieve_and_answer") =>
        /\ ret.kind = "return"
        /\ ret.value # "Based on retrieved documents: No relevant information found."
        /\ \E i \in DOMAIN C7_Entries :
              ret.value = "Based on retrieved documents: " \o C7_Entries[i][2]

\* C10 witness: the decision was retrieve_and_answer on an input that holds a
\* marker, and the tool has then answered from the knowledge base
C10_Witness ==
    /\ llm_client = MockLLMClient
    /\ action = "retrieve_and_answer"
    /\ op = "retrieve_and_answer"
    /\ MarkerPlaces(user_input) # {}
    /\ ret # Return("Based on retrieved documents: No relevant information found.")

====
